---- MODULE Spec2Model ----
(***************************************************************************)
(* Model of new_app.py: the add-entry page of the portfolio tracker.       *)
(*                                                                         *)
(* Units.  Money is an integer number of cents (the form's number inputs   *)
(* step by 0.01), so round(x, 2) of a money value is the value itself.     *)
(* Percentages are integers in hundredths of a percent (100.0 % = 10000),  *)
(* so round(x, 2) of a percentage is a rounding to the nearest integer,    *)
(* done by Round.  Dates are day numbers.                                  *)
(*                                                                         *)
(* The sheet is a sequence of rows.  A row is a record with one field per  *)
(* column of the sheet:                                                    *)
(*   Ticker "Ticker"            shares "# of shares"                       *)
(*   buy   "Buy stock price"    cur    "Current stock price"               *)
(*   stop  "Stop Loss"          slp    "Stop Loss Profit"                  *)
(*   ud    "$ up/down"          pct    "% up/down"                         *)
(*   slpct "Stop_loss_%"        bv     "Buy value"                         *)
(*   cv    "Current value"      bdate  "B_Date"                            *)
(*   days  "Days"               spy    "Current_Spy"                       *)
(*   spyper "SPY_Per%"          holding "Holding"                          *)
(*   pp    "Profit%_Portfolio"  sp     "Stoploss_Portfolio%"               *)
(*   remark "Remark"                                                       *)
(***************************************************************************)
EXTENDS Integers, Sequences, FiniteSets, TLC

VARIABLES
    store,          \* the worksheet's contents: a sequence of rows
    session_price,  \* st.session_state.current_price, NoPrice when absent
    ticker_input,   \* the text of the "Stock Ticker" widget (key ticker_input)
    today,          \* datetime.today().date(), as a day number
    msgs,           \* the messages the last run's button handler displayed
    page            \* st.session_state.page, "none" before a page is chosen

vars == <<store, session_price, ticker_input, today, msgs, page>>

----------------------------------------------------------------------------
(* Bounds of the model *)

\* the most Position rows a submission may find in the loaded sheet
MaxRows == 2
\* the last day the clock advances to
MaxDay == 1

----------------------------------------------------------------------------
(* Values *)

\* an empty cell: None, NaN or "" in a numeric or date column
Blank == -1000000

\* no price: None returned by get_current_price, or the session key absent
NoPrice == -1

\* the texts typed into the ticker widget
TickerInputs == {"", "aapl", "Total"}

\* str.upper on the texts of TickerInputs
Upper(s) ==
    CASE s = "aapl" -> "AAPL"
      [] s = "Total" -> "TOTAL"
      [] OTHER -> s

\* the latest daily close the quote service has for a symbol, in cents
\* (the service upper-cases the symbol itself); NoPrice for an unknown symbol
Quote(sym) ==
    IF Upper(sym) = "AAPL" THEN 12000 ELSE NoPrice

\* the latest daily close of SPY, in cents
SpyClose == 51000

\* what the form submits: shares, buy_price, stop_loss, pur_spy, remark
Forms ==
    { [shares |-> 10, buy_price |-> 10000, stop_loss |-> 9000,
       pur_spy |-> 0, remark |-> ""],
      [shares |-> 5, buy_price |-> 13000, stop_loss |-> 15000,
       pur_spy |-> 50000, remark |-> "tech"],
      [shares |-> 1, buy_price |-> 0, stop_loss |-> 0,
       pur_spy |-> 0, remark |-> ""] }

\* how save_data ends: "ok"; "no_sheet" when connect_to_gsheet returned None or
\* sheet.clear() raised (nothing written); "cleared" when sheet.clear() went
\* through and set_with_dataframe raised
SaveResults == {"ok", "no_sheet", "cleared"}

----------------------------------------------------------------------------
(* Arithmetic *)

\* round(num / den) to the nearest integer, ties to even; den # 0
Round(num, den) ==
    LET n == IF den < 0 THEN -num ELSE num
        d == IF den < 0 THEN -den ELSE den
        q == n \div d
        r == n % d
    IN  IF 2 * r < d THEN q
        ELSE IF 2 * r > d THEN q + 1
        ELSE IF q % 2 = 0 THEN q ELSE q + 1

RECURSIVE SumSeq(_)
\* Series.sum(): the sum of the cells, empty cells skipped
SumSeq(s) ==
    IF s = <<>> THEN 0
    ELSE (IF Head(s) = Blank THEN 0 ELSE Head(s)) + SumSeq(Tail(s))

\* the cells of column c of a frame
Col(df, c) == [i \in 1..Len(df) |-> df[i][c]]

----------------------------------------------------------------------------
(* Quote provider and table store *)

\* get_current_price(ticker): the rounded close, None when the history is
\* empty or the call raised (up = FALSE)
get_current_price(ticker, up) ==
    IF up THEN Quote(ticker) ELSE NoPrice

\* get_current_spy(): the rounded close of SPY, None when unavailable
get_current_spy(up) ==
    IF up THEN SpyClose ELSE Blank

\* load_data(): the sheet as a frame, an empty frame when the load raised
load_data(ok) ==
    IF ok THEN store ELSE <<>>

\* save_data(df): the sheet after the call
save_data(df, res) ==
    CASE res = "ok" -> df
      [] res = "no_sheet" -> store
      [] res = "cleared" -> <<>>

----------------------------------------------------------------------------
(* The recomputation of show_add_entry *)

\* StripTotal with the filter lost: the frame keeps its Total row
StripTotalKeep(df) == df

\* df[df["Ticker"] != "Total"]
StripTotal(df) == SelectSeq(df, LAMBDA r : r.Ticker # "Total")

\* the lambda of df["Days"] = df["B_Date"].apply(...)
DaysOf(d, now) == IF d = Blank THEN Blank ELSE now - d

\* the Days column recomputed for every row
RefreshDays(df, now) ==
    [i \in 1..Len(df) |-> [df[i] EXCEPT !.days = DaysOf(df[i].bdate, now)]]

\* NewRow with "% up/down" computed as current / buy * 100, the "- 1" lost
NewRowNoMinusOne(ticker, f, current_price, current_spy, now) ==
    LET buy_value == f.shares * f.buy_price
        stop_loss_profit == (f.stop_loss - f.buy_price) * f.shares
    IN  [Ticker |-> Upper(ticker), shares |-> f.shares, buy |-> f.buy_price,
         cur |-> current_price, stop |-> f.stop_loss, slp |-> stop_loss_profit,
         ud |-> f.shares * current_price - buy_value,
         pct |-> Round(current_price * 10000, f.buy_price),
         slpct |-> Round(stop_loss_profit * 10000, buy_value),
         bv |-> buy_value, cv |-> f.shares * current_price,
         bdate |-> now, days |-> 0, spy |-> current_spy,
         spyper |-> IF f.pur_spy # 0
                    THEN Round((current_spy - f.pur_spy) * 10000, f.pur_spy)
                    ELSE 0,
         holding |-> 1, pp |-> 0, sp |-> 0, remark |-> f.remark]

\* new_row of a submission that raised nothing
NewRow(ticker, f, current_price, current_spy, now) ==
    LET buy_value == f.shares * f.buy_price
        current_value == f.shares * current_price
        stop_loss_profit == (f.stop_loss - f.buy_price) * f.shares
        dollar_up_down == current_value - buy_value
        percent_up_down == Round((current_price - f.buy_price) * 10000, f.buy_price)
        stop_loss_percent == Round(stop_loss_profit * 10000, buy_value)
        spy_perc == IF f.pur_spy # 0
                    THEN Round((current_spy - f.pur_spy) * 10000, f.pur_spy)
                    ELSE 0
    IN  [Ticker |-> Upper(ticker), shares |-> f.shares, buy |-> f.buy_price,
         cur |-> current_price, stop |-> f.stop_loss, slp |-> stop_loss_profit,
         ud |-> dollar_up_down, pct |-> percent_up_down,
         slpct |-> stop_loss_percent, bv |-> buy_value, cv |-> current_value,
         bdate |-> now, days |-> 0, spy |-> current_spy, spyper |-> spy_perc,
         holding |-> 1, pp |-> 0, sp |-> 0, remark |-> f.remark]

\* one portfolio share: round(x / total * 100, 2) if total else 0
ShareOf(x, total) == IF total # 0 THEN Round(x * 10000, total) ELSE 0

\* WithShares with the two denominators swapped
WithSharesSwapped(df) ==
    [i \in 1..Len(df) |->
        [df[i] EXCEPT !.pp = ShareOf(df[i].ud, SumSeq(Col(df, "slp"))),
                      !.sp = ShareOf(df[i].slp, SumSeq(Col(df, "ud")))]]

\* the two portfolio-share columns recomputed for every row
WithShares(df) ==
    LET total_up_down == SumSeq(Col(df, "ud"))
        total_sl_profit == SumSeq(Col(df, "slp"))
    IN  [i \in 1..Len(df) |->
            [df[i] EXCEPT !.pp = ShareOf(df[i].ud, total_up_down),
                          !.sp = ShareOf(df[i].slp, total_sl_profit)]]

\* TotalRow without lines 326 and 327: the two share columns stay excluded
TotalRowNoShares(df, spyNumeric) ==
    [Ticker |-> "Total",
     shares |-> SumSeq(Col(df, "shares")), buy |-> SumSeq(Col(df, "buy")),
     cur |-> SumSeq(Col(df, "cur")), stop |-> SumSeq(Col(df, "stop")),
     slp |-> SumSeq(Col(df, "slp")), ud |-> SumSeq(Col(df, "ud")),
     pct |-> SumSeq(Col(df, "pct")), slpct |-> SumSeq(Col(df, "slpct")),
     bv |-> SumSeq(Col(df, "bv")), cv |-> SumSeq(Col(df, "cv")),
     bdate |-> Blank, days |-> SumSeq(Col(df, "days")),
     spy |-> IF spyNumeric THEN SumSeq(Col(df, "spy")) ELSE Blank,
     spyper |-> SumSeq(Col(df, "spyper")),
     holding |-> Blank, pp |-> Blank, sp |-> Blank, remark |-> ""]

\* total_row: the sum of every numeric column, "" in the excluded ones.
\* spyNumeric: whether Current_Spy has a numeric dtype in the frame.
TotalRow(df, spyNumeric) ==
    [Ticker |-> "Total",
     shares |-> SumSeq(Col(df, "shares")), buy |-> SumSeq(Col(df, "buy")),
     cur |-> SumSeq(Col(df, "cur")), stop |-> SumSeq(Col(df, "stop")),
     slp |-> SumSeq(Col(df, "slp")), ud |-> SumSeq(Col(df, "ud")),
     pct |-> SumSeq(Col(df, "pct")), slpct |-> SumSeq(Col(df, "slpct")),
     bv |-> SumSeq(Col(df, "bv")), cv |-> SumSeq(Col(df, "cv")),
     bdate |-> Blank, days |-> SumSeq(Col(df, "days")),
     spy |-> IF spyNumeric THEN SumSeq(Col(df, "spy")) ELSE Blank,
     spyper |-> SumSeq(Col(df, "spyper")),
     holding |-> Blank, pp |-> 10000, sp |-> 10000, remark |-> ""]

\* pd.api.types.is_numeric_dtype(df["Current_Spy"]) after the concat of line
\* 297, df being the loaded Positions: a number in the new row joins a float
\* column; None makes the new row's column an object column, which the concat
\* keeps as object or, when it leaves all-NA columns out of the result dtype,
\* as the loaded float column
SpyDtypes(df, current_spy) ==
    IF current_spy # Blank THEN {TRUE}
    ELSE IF df = <<>> THEN {FALSE}
    ELSE {TRUE, FALSE}

\* the frame handed to save_data: lines 262 to 328
Recompute(loaded, new_row, now, spyNumeric) ==
    LET df0 == StripTotal(loaded)
        df1 == Append(df0, new_row)
        df2 == RefreshDays(df1, now)
        df3 == StripTotal(df2)
        df4 == WithShares(df3)
    IN  Append(df4, TotalRow(df4, spyNumeric))

----------------------------------------------------------------------------
(* Initial state *)

\* a Position stored by an earlier session on day 0
OldRow ==
    [Ticker |-> "AAPL", shares |-> 5, buy |-> 13000, cur |-> 12000,
     stop |-> 15000, slp |-> 10000, ud |-> -5000, pct |-> -769, slpct |-> 1538,
     bv |-> 65000, cv |-> 60000, bdate |-> 0, days |-> 0, spy |-> 51000,
     spyper |-> 200, holding |-> 1, pp |-> 10000, sp |-> 10000,
     remark |-> "tech"]

\* a sheet whose Total row is stale: it still counts a Position that has
\* since been deleted from the sheet by hand
StaleSheet == <<OldRow, TotalRow(<<OldRow, OldRow>>, TRUE)>>

Init ==
    /\ store \in {<<>>, StaleSheet}
    /\ session_price = NoPrice
    /\ ticker_input = ""
    /\ today = 0
    /\ msgs = {}
    /\ page = "none"

----------------------------------------------------------------------------
(* What a run of a page renders, given the frame its load_data returned *)

\* the pages main routes to
Pages == {"add_entry", "display_matrix", "dashboard"}

\* a run that renders no frame and no metric: its frame is empty
NoView == [frame |-> <<>>, invested |-> Blank, value |-> Blank]

\* a rendered frame with df["Buy value"].sum() and df["Current value"].sum()
\* over it
Metrics(df) ==
    [frame |-> df,
     invested |-> SumSeq(Col(df, "bv")), value |-> SumSeq(Col(df, "cv"))]

\* pd.to_datetime(..., errors='coerce'): the date of a cell, NaT for an empty
\* cell
ToDatetime(d) == IF d = Blank THEN Blank ELSE d

\* RefreshDisplay with Days computed for dated rows only: the Days cell of a
\* row without a date is left as loaded
RefreshDisplayDated(df, now) ==
    [i \in 1..Len(df) |->
        IF df[i].bdate = Blank THEN df[i]
        ELSE [df[i] EXCEPT !.days = DaysOf(ToDatetime(df[i].bdate), now)]]

\* lines 173 and 174: B_Date parsed and Days recomputed for every row
RefreshDisplay(df, now) ==
    [i \in 1..Len(df) |->
        [df[i] EXCEPT !.bdate = ToDatetime(df[i].bdate),
                      !.days = DaysOf(ToDatetime(df[i].bdate), now)]]

\* the top of show_add_entry, lines 171 to 208: the summary frame and the
\* Performance Metrics over that frame
AddEntryView(df, now) ==
    IF df = <<>> THEN NoView ELSE Metrics(RefreshDisplay(df, now))

\* show_matrix, lines 349 to 374: the rows with Holding == 1 and their sums
MatrixView(df) ==
    LET holding_df == SelectSeq(df, LAMBDA r : r.holding = 1)
    IN  IF df = <<>> \/ holding_df = <<>> THEN NoView ELSE Metrics(holding_df)

\* show_dashboard, lines 475 to 495: the sums and the chart over every row
DashboardView(df) ==
    IF df = <<>> THEN NoView ELSE Metrics(df)

\* what a run of the page renders: the page routing of main, lines 589 to 596
PageView(p, df, now) ==
    CASE p = "add_entry" -> AddEntryView(df, now)
      [] p = "display_matrix" -> MatrixView(df)
      [] p = "dashboard" -> DashboardView(df)
      [] OTHER -> NoView

----------------------------------------------------------------------------
(* Operations *)

\* one of the three navigation buttons of main, lines 557 to 582: the page is
\* set and rendered (load_data, then PageView of what it returned); nothing
\* is saved.  The ticker widget keeps its text only while it stays rendered,
\* that is from the add-entry page to itself.
GoTo(p) ==
    /\ page' = p
    /\ ticker_input' =
           IF p = "add_entry" /\ page = "add_entry" THEN ticker_input ELSE ""
    /\ msgs' = {}
    /\ UNCHANGED <<store, session_price, today>>

\* the user retypes the ticker widget; the page reruns and writes nothing
EditTicker(t) ==
    /\ page = "add_entry"
    /\ t # ticker_input
    /\ ticker_input' = t
    /\ msgs' = {}
    /\ UNCHANGED <<store, session_price, today, page>>

\* the symbol handed to get_current_price: lines 217 and 254
QuoteArg == ticker_input

\* the "Get Current Price" button: lines 215 to 224
ClickGetPrice(quoteUp) ==
    /\ page = "add_entry"
    /\ IF ticker_input # ""
       THEN LET current_price == get_current_price(QuoteArg, quoteUp)
            IN  IF current_price # NoPrice /\ current_price # 0
                THEN /\ session_price' = current_price
                     /\ msgs' = {"price_shown"}
                ELSE /\ session_price' = session_price
                     /\ msgs' = {"price_failed"}
       ELSE /\ session_price' = session_price
            /\ msgs' = {"ticker_warning"}
    /\ UNCHANGED <<store, ticker_input, today, page>>

\* the number of Position rows of a table; MaxRows bounds it in the sheets
\* that a submission goes on to grow
Stored(t) == Cardinality({i \in 1..Len(t) : t[i].Ticker # "Total"})

\* the outcomes of the submission's call of get_current_price (the service
\* answering or not); the call is made only when the session holds no price
QuoteCalls == IF session_price = NoPrice THEN BOOLEAN ELSE {TRUE}

\* the price a submission works with: line 254
SubmitPrice(quoteUp) ==
    IF session_price = NoPrice
    THEN get_current_price(QuoteArg, quoteUp)
    ELSE session_price

\* whether lines 264 to 273 raise: a division by a zero buy price or buy
\* value, or None - pur_spy
Raises(f, current_spy) ==
    \/ f.buy_price = 0
    \/ f.shares * f.buy_price = 0
    \/ (f.pur_spy # 0 /\ current_spy = Blank)

\* the "Add to Portfolio" button: lines 249 to 336.  The disjuncts are the
\* handler's four ways out: the two early returns, the except clause, and the
\* end of the try block.
Submit(f) ==
    /\ page = "add_entry"
    /\ UNCHANGED <<ticker_input, today, page>>
    /\ \/ /\ ticker_input = ""
          /\ msgs' = {"ticker_missing"}
          /\ UNCHANGED <<store, session_price>>
       \/ \E quoteUp \in QuoteCalls :
          /\ ticker_input # ""
          /\ SubmitPrice(quoteUp) \in {NoPrice, 0}
          /\ msgs' = {"price_unavailable"}
          /\ UNCHANGED <<store, session_price>>
       \/ \E quoteUp \in QuoteCalls, spyUp, loadOk \in BOOLEAN :
          /\ ticker_input # ""
          /\ SubmitPrice(quoteUp) \notin {NoPrice, 0}
          /\ Raises(f, get_current_spy(spyUp))
          /\ msgs' = (IF loadOk THEN {} ELSE {"load_error"}) \cup {"calc_error"}
          /\ UNCHANGED <<store, session_price>>
       \/ \E quoteUp \in QuoteCalls, spyUp, loadOk \in BOOLEAN,
             saveRes \in SaveResults :
          LET current_price == SubmitPrice(quoteUp)
              current_spy == get_current_spy(spyUp)
              df == StripTotal(load_data(loadOk))
          IN  /\ ticker_input # ""
              /\ current_price \notin {NoPrice, 0}
              /\ ~Raises(f, current_spy)
              /\ saveRes = "ok" => Stored(load_data(loadOk)) < MaxRows
              /\ \E spyNumeric \in SpyDtypes(df, current_spy) :
                 store' = save_data(
                     Recompute(load_data(loadOk),
                               NewRow(ticker_input, f, current_price,
                                      current_spy, today),
                               today, spyNumeric),
                     saveRes)
              /\ msgs' = (IF loadOk THEN {} ELSE {"load_error"})
                         \cup (IF saveRes = "ok" THEN {} ELSE {"save_error"})
                         \cup {"success"}
              /\ session_price' = NoPrice

\* midnight passes
Tick ==
    /\ today < MaxDay
    /\ today' = today + 1
    /\ UNCHANGED <<store, session_price, ticker_input, msgs, page>>

Next ==
    \/ \E p \in Pages : GoTo(p)
    \/ \E t \in TickerInputs : EditTicker(t)
    \/ \E quoteUp \in BOOLEAN : ClickGetPrice(quoteUp)
    \/ \E f \in Forms : Submit(f)
    \/ Tick

Spec == Init /\ [][Next]_vars

----------------------------------------------------------------------------
(* Vocabulary of the properties *)

\* the Position rows of a table, in order
PositionRows(t) == SelectSeq(t, LAMBDA r : r.Ticker # "Total")

\* the sum of the non-empty cells of column c over the rows of t
RECURSIVE ColumnSum(_, _)
ColumnSum(t, c) ==
    IF t = <<>> THEN 0
    ELSE ColumnSum(Tail(t), c) + (IF Head(t)[c] = Blank THEN 0 ELSE Head(t)[c])

Abs(x) == IF x < 0 THEN -x ELSE x

\* v is num / den rounded to a nearest integer (either neighbour on a tie)
IsNearest(v, num, den) == Abs(v * den - num) <= Abs(den) \div 2

\* what the user typed for a Position: the fields a submission supplies
InputFields(r) ==
    <<r.Ticker, r.shares, r.buy, r.cur, r.stop, r.bdate, r.remark>>

\* the columns that are numeric in every frame, the two share columns apart
SummedColumns ==
    {"shares", "buy", "cur", "stop", "slp", "ud", "pct", "slpct", "bv", "cv",
     "days", "spyper"}

\* the last run was a submission that reached line 330 and whose save_data
\* wrote the frame
Written == "success" \in msgs /\ "save_error" \notin msgs

\* a step of the "Add to Portfolio" handler
SubmitStep == \E f \in Forms : Submit(f)

\* the messages of load_data and save_data
StoreErrors == {"load_error", "save_error"}

----------------------------------------------------------------------------
(* Properties *)

\* C1: after any sequence of submissions, from an empty sheet or from one with
\* a stale Total row, the sheet holds at most one row whose Ticker is "Total",
\* and that row is the last one.
C1_OneTotalLast ==
    \A i \in 1..Len(store) : store[i].Ticker = "Total" => i = Len(store)

\* C1: a second submission has rewritten a sheet that already had a Total row
C1_Witness ==
    /\ Written
    /\ Len(store) = 3
    /\ store[1].Ticker # "Total" /\ store[2].Ticker # "Total"
    /\ store[3].Ticker = "Total"

C3_AppendOnly ==
    [][LET P == PositionRows(store)
           Q == PositionRows(store')
       IN  "save_error" \notin msgs' =>
               /\ Len(Q) \in {Len(P), Len(P) + 1}
               /\ \A i \in 1..Len(P) :
                      InputFields(Q[i]) = InputFields(P[i])]_vars

\* C4: a submission during which the load or the save failed leaves a sheet
\* that held rows with exactly the contents it had before.
C4_FailureLeavesStore ==
    [][(SubmitStep /\ store # <<>> /\ msgs' \cap StoreErrors # {})
        => store' = store]_vars

\* C5: a submission (here one whose load worked) has two outcomes: its frame
\* (Positions and Total) was written and only success is reported, or an
\* error is reported, success is not, and the sheet is unchanged.
C5_TwoOutcomes ==
    [][(SubmitStep /\ "load_error" \notin msgs') =>
        \/ /\ msgs' = {"success"}
           /\ store' # <<>>
           /\ store'[Len(store')].Ticker = "Total"
        \/ /\ "success" \notin msgs'
           /\ msgs' # {}
           /\ store' = store]_vars

\* C6: a submission for a ticker the quote provider has no price for fails
\* with the price-unavailable error and leaves the sheet unchanged, whatever
\* was looked up earlier in the session (stated for the submissions during
\* which neither the store nor the arithmetic fails).
C6_NoPriceNoWrite ==
    [][(/\ SubmitStep
        /\ ticker_input # ""
        /\ Quote(ticker_input) = NoPrice
        /\ msgs' \cap (StoreErrors \cup {"calc_error"}) = {})
        => (store' = store /\ msgs' = {"price_unavailable"})]_vars

\* C7: every stored Position carries the price the quote provider returns for
\* its own ticker (stated for the sheet a submission leaves when it reports
\* nothing but success).
C7_PriceOfOwnTicker ==
    msgs = {"success"} =>
        \A i \in 1..Len(store) :
            store[i].Ticker # "Total" => store[i].cur = Quote(store[i].Ticker)

\* C8: a submission with buy_price = 0, a ticker and a price completes and
\* stores the Position with "% up/down" = 0 (stated for the submissions during
\* which the store does not fail).
C8_ZeroBuyStored ==
    [][\A f \in Forms :
        (/\ Submit(f)
         /\ f.buy_price = 0
         /\ ticker_input # ""
         /\ session_price # NoPrice
         /\ msgs' \cap StoreErrors = {})
        => /\ "success" \in msgs'
           /\ LET Q == PositionRows(store')
              IN  /\ Q # <<>>
                  /\ Q[Len(Q)].buy = 0
                  /\ Q[Len(Q)].pct = 0]_vars

\* C9: after a submission whose frame was written, every Position row, old or
\* new, has Profit%_Portfolio = "$ up/down" / (its sum over the Positions) *
\* 100 and Stoploss_Portfolio% = "Stop Loss Profit" / (its sum) * 100, each
\* rounded to 2 decimals, and 0 where the sum is 0.
C9_PortfolioShares ==
    Written =>
        LET P == PositionRows(store)
            total_ud == ColumnSum(P, "ud")
            total_slp == ColumnSum(P, "slp")
        IN  \A i \in 1..Len(P) :
                /\ IF total_ud = 0 THEN P[i].pp = 0
                   ELSE IsNearest(P[i].pp, P[i].ud * 10000, total_ud)
                /\ IF total_slp = 0 THEN P[i].sp = 0
                   ELSE IsNearest(P[i].sp, P[i].slp * 10000, total_slp)

\* C9: the scenario of the specification: changes of 200 and -50 give shares
\* of 133.33 and -33.33; the stop-loss profits -100 and 100 sum to 0 and give
\* shares of 0
C9_Witness ==
    /\ Written
    /\ Len(store) = 3
    /\ store[1].ud = 20000 /\ store[2].ud = -5000
    /\ store[1].pp = 13333 /\ store[2].pp = -3333
    /\ store[1].slp = -10000 /\ store[2].slp = 10000
    /\ store[1].sp = 0 /\ store[2].sp = 0

\* C10: every stored Position with a buy price above 0 has buy value = shares
\* * buy price, current value = shares * current price, "$ up/down" = current
\* value - buy value, "% up/down" = (current / buy - 1) * 100, stop loss
\* profit = (stop loss - buy price) * shares and Stop_loss_% = stop loss
\* profit / buy value * 100, the percentages rounded to 2 decimals.
C10_DerivedFields ==
    \A i \in 1..Len(store) :
        LET r == store[i]
        IN  (r.Ticker # "Total" /\ r.buy > 0) =>
                /\ r.bv = r.shares * r.buy
                /\ r.cv = r.shares * r.cur
                /\ r.ud = r.cv - r.bv
                /\ IsNearest(r.pct, (r.cur - r.buy) * 10000, r.buy)
                /\ r.slp = (r.stop - r.buy) * r.shares
                /\ IsNearest(r.slpct, r.slp * 10000, r.bv)

\* C10: the scenario of the specification: 10 shares bought at 100, now at
\* 120, stop loss 90, stored as 1000, 1200, 200, 20.0 %, -100, -10.0 %
C10_Witness ==
    /\ "success" \in msgs
    /\ store # <<>>
    /\ \E i \in 1..Len(store) :
        /\ store[i].Ticker = "AAPL"
        /\ store[i].shares = 10 /\ store[i].buy = 10000
        /\ store[i].cur = 12000 /\ store[i].stop = 9000
        /\ store[i].bv = 100000 /\ store[i].cv = 120000
        /\ store[i].ud = 20000 /\ store[i].pct = 2000
        /\ store[i].slp = -10000 /\ store[i].slpct = -1000

\* every column of the sheet
Columns ==
    {"Ticker", "shares", "buy", "cur", "stop", "slp", "ud", "pct", "slpct",
     "bv", "cv", "bdate", "days", "spy", "spyper", "holding", "pp", "sp",
     "remark"}

\* a step of a run that renders a page and presses no form button
DisplayStep ==
    \/ \E p \in Pages : GoTo(p)
    \/ \E t \in TickerInputs : EditTicker(t)
    \/ \E quoteUp \in BOOLEAN : ClickGetPrice(quoteUp)

\* the summary the add-entry page renders now shows, Days apart, every cell
\* of every row as stored, and Days = today - B_Date in every Position row;
\* totalDays(i) is what it shows as Days in a Total row i
SummaryShows(totalDays(_)) ==
    page = "add_entry" => \A ok \in BOOLEAN :
        LET shown == AddEntryView(load_data(ok), today).frame
        IN  shown # <<>> =>
                /\ Len(shown) = Len(store)
                /\ \A i \in 1..Len(store) :
                    /\ \A c \in Columns \ {"days"} : shown[i][c] = store[i][c]
                    /\ shown[i].days =
                           IF store[i].Ticker = "Total" THEN totalDays(i)
                           ELSE today - store[i].bdate

\* C11 as stated: no display path writes to the sheet, and the add-entry
\* summary changes only the Days of Position rows: every numeric value of the
\* Total row, Days included, is shown as stored.
C11_TotalShownAsStored ==
    /\ []SummaryShows(LAMBDA i : store[i].days)
    /\ [][store' = store \/ ~DisplayStep]_vars

\* C11, amended: no display path writes to the sheet, and the add-entry
\* summary changes only the Days column: a Position row shows today - B_Date
\* and the Total row, which has no date, shows an empty Days cell in place of
\* its stored sum; every other cell of every row is shown as stored.
C11_DisplayChangesDaysOnly ==
    /\ []SummaryShows(LAMBDA i : Blank)
    /\ [][store' = store \/ ~DisplayStep]_vars

\* C11: the add-entry page is rendered a day after a Position was stored: the
\* summary shows a Days value that differs from the stored one, and the sheet
\* has a Total row with a stored Days sum
C11_Witness ==
    /\ page = "add_entry"
    /\ msgs = {}
    /\ Len(store) >= 2
    /\ store[1].Ticker # "Total"
    /\ store[Len(store)].Ticker = "Total"
    /\ store[Len(store)].days # Blank
    /\ AddEntryView(load_data(TRUE), today).frame[1].days # store[1].days
    /\ AddEntryView(load_data(TRUE), today).frame[Len(store)].days = Blank

\* the texts that are upper-case symbols
UpperCase == {"AAPL", "TOTAL"}

\* C12: a submission with an empty ticker is rejected and leaves the sheet
\* unchanged; every Position a submission stores has a non-empty upper-case
\* Ticker, and the symbol looked up for a stored Position is that same
\* upper-case symbol.
C12_UpperCaseTicker ==
    [][\A f \in Forms : Submit(f) =>
        /\ ticker_input = "" =>
              (store' = store /\ msgs' = {"ticker_missing"})
        /\ \A i \in 1..Len(store') :
              store'[i].Ticker # "Total" =>
                  (store'[i].Ticker # "" /\ store'[i].Ticker \in UpperCase)
        /\ msgs' = {"success"} =>
              LET Q == PositionRows(store')
              IN  QuoteArg = Q[Len(Q)].Ticker]_vars

\* a ledger as a submission writes it: Positions, all held, and a last row
\* Total that holds their sums
LedgerOfAddEntry ==
    /\ store # <<>>
    /\ LET P == PositionRows(store)
           T == store[Len(store)]
       IN  /\ P # <<>>
           /\ Len(P) = Len(store) - 1
           /\ T.Ticker = "Total"
           /\ \A i \in 1..Len(P) : P[i].holding = 1
           /\ T.bv = ColumnSum(P, "bv")
           /\ T.cv = ColumnSum(P, "cv")

\* C13: on a ledger written by a submission and read without a store error,
\* the Total Investment and Current
\* Value of the dashboard and of the add-entry page's Performance Metrics are
\* the sums of Buy value and Current value over the Position rows, and so
\* agree with the matrix page.
C13_MetricsOverPositions ==
    (/\ page \in {"dashboard", "add_entry"}
     /\ msgs \cap StoreErrors = {}
     /\ LedgerOfAddEntry) =>
        LET P == PositionRows(store)
            shown == PageView(page, load_data(TRUE), today)
            matrix == MatrixView(load_data(TRUE))
        IN  /\ shown.invested = ColumnSum(P, "bv")
            /\ shown.value = ColumnSum(P, "cv")
            /\ shown.invested = matrix.invested
            /\ shown.value = matrix.value

====
